---- MODULE Spec2Model ----
(***************************************************************************)
(* Model of the text-extraction core of the GitHub Issue Analyzer:         *)
(*   IssueAnalyzerService.extractFileReferences  (ReferenceExtractor)      *)
(*   GeminiService.parseAIResponse               (ResponseStructurer)      *)
(* A JavaScript string is a sequence of one-character strings.  The        *)
(* regular expressions of the source are kept as syntax trees and run by   *)
(* a backtracking matcher with the priorities of the ECMAScript matcher    *)
(* (greedy before shorter, lazy before longer, alternatives left to        *)
(* right, leftmost start first).                                           *)
(***************************************************************************)
EXTENDS Integers, Sequences, FiniteSets, TLC

VARIABLES
  pc,              \* position of the running call
  issueBody,       \* argument of extractFileReferences
  fileReferences,  \* local array of extractFileReferences
  pass1Refs,       \* fileReferences as pass 1 left it
  lastIndex,       \* lastIndex of the global regex being exec'ed (1-based)
  result,          \* value returned by extractFileReferences
  aiResponse,      \* argument of parseAIResponse
  fileContents,    \* argument of parseAIResponse
  solution,        \* local object `solution` of parseAIResponse
  thrown,          \* TRUE when the call ended by an exception
  failed,          \* the passes of extractFileReferences whose catch block ran
  callee,          \* the method the running call belongs to
  calls,           \* number of calls made on the service objects so far
  firstCall,       \* the first call made: its method, arguments and outcome
  issues,          \* the Issue collection of the database
  handlers,        \* the create-ai-issue requests being handled
  overlapped,      \* TRUE once a request arrived while another was in flight
  aiSolutions,     \* the AISolution collection: the issues that have a solution
  created,         \* the documents create-ai-issue stored, as it stored them
  response         \* the last request answered by the other routes, and its answer

callVars == <<callee, calls, firstCall>>
routeVars == <<issues, handlers, overlapped, aiSolutions, created, response>>
otherVars == <<failed, callVars, routeVars>>

vars == <<pc, issueBody, fileReferences, pass1Refs, lastIndex, result,
          aiResponse, fileContents, solution, thrown, failed, callVars, routeVars>>

extractVars == <<issueBody, fileReferences, pass1Refs, lastIndex, result>>
parseVars == <<aiResponse, fileContents, solution>>

----------------------------------------------------------------------------
(* Characters and the character classes the source's patterns use.         *)

LowerLetters == <<"a","b","c","d","e","f","g","h","i","j","k","l","m",
                  "n","o","p","q","r","s","t","u","v","w","x","y","z">>
UpperLetters == <<"A","B","C","D","E","F","G","H","I","J","K","L","M",
                  "N","O","P","Q","R","S","T","U","V","W","X","Y","Z">>
DigitChars == <<"0","1","2","3","4","5","6","7","8","9">>

Range(f) == {f[i] : i \in DOMAIN f}

\* [a-zA-Z]
Alpha == Range(LowerLetters) \cup Range(UpperLetters)
\* \d
Digit == Range(DigitChars)
\* \w
Word == Alpha \cup Digit \cup {"_"}
\* \s  (the white space that occurs in the modelled texts)
Space == {" ", "\n", "\t"}
\* [\w\-./]
PathChar == Word \cup {"-", ".", "/"}
\* the backquote character (a TLA+ string cannot hold it)
Tick == "<backquote>"
\* every character of the modelled texts
Punct == {"_", "-", ".", "/", ":", Tick, "(", ")", "*", ";", "=", ","}
AnyChar == Alpha \cup Digit \cup Space \cup Punct

\* the other case of a letter, for the i flag
SwapCase(c) ==
  IF \E i \in 1..26 : LowerLetters[i] = c
    THEN UpperLetters[CHOOSE i \in 1..26 : LowerLetters[i] = c]
    ELSE IF \E i \in 1..26 : UpperLetters[i] = c
      THEN LowerLetters[CHOOSE i \in 1..26 : UpperLetters[i] = c]
      ELSE c

----------------------------------------------------------------------------
(* Regular-expression syntax trees.                                        *)

RSet(S) == [t |-> "set", set |-> S]
RSeq(rs) == [t |-> "seq", rs |-> rs]
RAlt(rs) == [t |-> "alt", rs |-> rs]
\* S* , S*? and S+ for a character class S (every quantified item of the
\* source's patterns is a character class) ; r? is (r|)
RStar(S) == [t |-> "star", set |-> S, lazy |-> FALSE, min |-> 0]
RLazyStar(S) == [t |-> "star", set |-> S, lazy |-> TRUE, min |-> 0]
RPlus(S) == [t |-> "star", set |-> S, lazy |-> FALSE, min |-> 1]
ROpt(r) == RAlt(<<r, RSeq(<<>>)>>)
\* capturing group number n
RGroup(n, r) == [t |-> "group", n |-> n, r |-> r]
\* (?=r)
RLook(r) == [t |-> "look", r |-> r]
\* $ without the m flag
REnd == [t |-> "end"]
\* a literal string, case-sensitive or under the i flag
RLit(str) == [t |-> "lit", str |-> str, ci |-> FALSE]
RLitI(str) == [t |-> "lit", str |-> str, ci |-> TRUE]

MaxGroups == 3
NoCaps == [n \in 1..MaxGroups |-> <<0, 0>>]
NoMatch == [ok |-> FALSE, start |-> 0, pos |-> 0, caps |-> NoCaps]

\* the literal str stands at pos of s
LitAt(s, pos, str, ci) ==
  /\ pos + Len(str) - 1 <= Len(s)
  /\ \A i \in 1..Len(str) :
       \/ s[pos + i - 1] = str[i]
       \/ ci /\ s[pos + i - 1] = SwapCase(str[i])

Least(S) == CHOOSE x \in S : \A y \in S : x <= y

(* Match(s, rs, pos, caps): the backtracking matcher.  rs is the          *)
(* continuation, the sequence of nodes still to be matched from pos.      *)
(* StarIn tries the run lengths lo..hi of a quantified character class:   *)
(* a greedy quantifier the longest first, a lazy one the shortest first.  *)
RECURSIVE Match(_, _, _, _), StarIn(_, _, _, _, _, _, _)
StarIn(s, k, pos, caps, lo, hi, lazy) ==
  IF lo > hi THEN NoMatch
  ELSE IF lo = hi THEN Match(s, k, pos + lo, caps)
  ELSE LET mid == (lo + hi) \div 2
           first == IF lazy THEN StarIn(s, k, pos, caps, lo, mid, lazy)
                            ELSE StarIn(s, k, pos, caps, mid + 1, hi, lazy)
       IN IF first.ok THEN first
          ELSE IF lazy THEN StarIn(s, k, pos, caps, mid + 1, hi, lazy)
                       ELSE StarIn(s, k, pos, caps, lo, mid, lazy)

Match(s, rs, pos, caps) ==
  IF rs = <<>> THEN [ok |-> TRUE, start |-> 0, pos |-> pos, caps |-> caps]
  ELSE
    LET r == Head(rs)
        k == Tail(rs)
    IN CASE r.t = "set" ->
              IF pos <= Len(s) /\ s[pos] \in r.set
                THEN Match(s, k, pos + 1, caps) ELSE NoMatch
         [] r.t = "lit" ->
              IF LitAt(s, pos, r.str, r.ci)
                THEN Match(s, k, pos + Len(r.str), caps) ELSE NoMatch
         [] r.t = "seq" -> Match(s, r.rs \o k, pos, caps)
         [] r.t = "alt" ->
              IF r.rs = <<>> THEN NoMatch
              ELSE LET m == Match(s, <<Head(r.rs)>> \o k, pos, caps)
                   IN IF m.ok THEN m
                      ELSE Match(s, <<RAlt(Tail(r.rs))>> \o k, pos, caps)
         [] r.t = "star" ->
              LET rest == Len(s) - pos + 1
                  run == Least({j \in 0..rest : j = rest \/ s[pos + j] \notin r.set})
              IN StarIn(s, k, pos, caps, r.min, run, r.lazy)
         [] r.t = "group" ->
              Match(s, <<r.r, [t |-> "close", n |-> r.n, from |-> pos]>> \o k, pos, caps)
         [] r.t = "close" ->
              Match(s, k, pos, [caps EXCEPT ![r.n] = <<r.from, pos>>])
         [] r.t = "look" ->
              LET m == Match(s, <<r.r>>, pos, caps)
              IN IF m.ok THEN Match(s, k, pos, m.caps) ELSE NoMatch
         [] r.t = "end" ->
              IF pos = Len(s) + 1 THEN Match(s, k, pos, caps) ELSE NoMatch

(* The characters that can begin a match of r, and whether r can match    *)
(* the empty string: a start whose character is not among them cannot     *)
(* match and is skipped by the search.                                     *)
RECURSIVE FirstChars(_)
FirstChars(r) ==
  CASE r.t = "set" -> [chars |-> r.set, empty |-> FALSE]
    [] r.t = "lit" ->
         IF r.str = <<>> THEN [chars |-> {}, empty |-> TRUE]
         ELSE [chars |-> {r.str[1]} \cup (IF r.ci THEN {SwapCase(r.str[1])} ELSE {}),
               empty |-> FALSE]
    [] r.t = "seq" ->
         IF r.rs = <<>> THEN [chars |-> {}, empty |-> TRUE]
         ELSE LET h == FirstChars(Head(r.rs))
              IN IF h.empty
                   THEN LET rest == FirstChars(RSeq(Tail(r.rs)))
                        IN [chars |-> h.chars \cup rest.chars, empty |-> rest.empty]
                   ELSE h
    [] r.t = "alt" ->
         IF r.rs = <<>> THEN [chars |-> {}, empty |-> FALSE]
         ELSE LET h == FirstChars(Head(r.rs))
                  rest == FirstChars(RAlt(Tail(r.rs)))
              IN [chars |-> h.chars \cup rest.chars, empty |-> h.empty \/ rest.empty]
    [] r.t = "star" -> [chars |-> r.set, empty |-> r.min = 0]
    [] r.t = "group" -> FirstChars(r.r)
    [] r.t = "look" -> [chars |-> {}, empty |-> TRUE]
    [] r.t = "end" -> [chars |-> {}, empty |-> TRUE]

(* RegExp.prototype.exec from index `from` (1-based): the leftmost start   *)
(* at or after `from` where the pattern matches.  ExecIn searches the     *)
(* starts lo..hi, left half first.                                         *)
RECURSIVE ExecIn(_, _, _, _, _)
ExecIn(s, re, first, lo, hi) ==
  IF lo > hi THEN NoMatch
  ELSE IF lo = hi
    THEN IF first.empty \/ (lo <= Len(s) /\ s[lo] \in first.chars)
           THEN LET m == Match(s, <<re>>, lo, NoCaps)
                IN IF m.ok THEN [m EXCEPT !.start = lo] ELSE NoMatch
           ELSE NoMatch
    ELSE LET mid == (lo + hi) \div 2
             left == ExecIn(s, re, first, lo, mid)
         IN IF left.ok THEN left ELSE ExecIn(s, re, first, mid + 1, hi)
Exec(s, re, from) == ExecIn(s, re, FirstChars(re), from, Len(s) + 1)

\* the text of capture group n of match m ("" when the group did not take part)
Slice(s, from, to) == [i \in 1..(to - from) |-> s[from + i - 1]]
Group(s, m, n) == Slice(s, m.caps[n][1], m.caps[n][2])
HasGroup(m, n) == m.caps[n][1] > 0
Matched(s, m) == Slice(s, m.start, m.pos)

----------------------------------------------------------------------------
(* String operations of the JavaScript runtime that the source calls.      *)

Str(x) == [tag |-> "string", s |-> x]
Null == [tag |-> "null", s |-> <<>>]
Undefined == [tag |-> "undefined", s |-> <<>>]
\* ToBoolean of a string-or-null value: null, undefined and '' are falsy
Truthy(v) == v.tag = "string" /\ v.s # <<>>

\* String.prototype.trim
RECURSIVE TrimLeft(_)
TrimLeft(s) == IF s # <<>> /\ Head(s) \in Space THEN TrimLeft(Tail(s)) ELSE s
RECURSIVE TrimRight(_)
TrimRight(s) ==
  IF s # <<>> /\ s[Len(s)] \in Space THEN TrimRight(SubSeq(s, 1, Len(s) - 1)) ELSE s
Trim(s) == TrimRight(TrimLeft(s))

\* String.prototype.includes
Includes(s, sub) ==
  \E i \in 1..(Len(s) - Len(sub) + 1) : SubSeq(s, i, i + Len(sub) - 1) = sub

\* parseInt(digits, 10) on a string of decimal digits
DigitValue(c) == (CHOOSE i \in 1..10 : DigitChars[i] = c) - 1
RECURSIVE ParseInt(_)
ParseInt(s) ==
  IF s = <<>> THEN 0
  ELSE 10 * ParseInt(SubSeq(s, 1, Len(s) - 1)) + DigitValue(s[Len(s)])

\* FirstParagraph splitting at the first single line break
FirstLine(s) ==
  LET cuts == {i \in 1..Len(s) : s[i] = "\n"}
  IN IF cuts = {} THEN s
     ELSE SubSeq(s, 1, (CHOOSE i \in cuts : \A j \in cuts : i <= j) - 1)

\* s.split('\n\n')[0]
FirstParagraph(s) ==
  LET cuts == {i \in 1..(Len(s) - 1) : s[i] = "\n" /\ s[i + 1] = "\n"}
  IN IF cuts = {} THEN s
     ELSE SubSeq(s, 1, (CHOOSE i \in cuts : \A j \in cuts : i <= j) - 1)

\* String.prototype.split(regexp): p is the start of the pending piece, q
\* the index from which the next separator is searched (both 1-based); a
\* separator is not tried at the end of s, and an empty one at p is skipped
RECURSIVE SplitFrom(_, _, _, _)
SplitFrom(s, re, p, q) ==
  LET m == ExecIn(s, re, FirstChars(re), q, Len(s))
  IN IF ~m.ok THEN <<Slice(s, p, Len(s) + 1)>>
     ELSE IF m.pos = p THEN SplitFrom(s, re, p, m.start + 1)
     ELSE <<Slice(s, p, m.start)>> \o SplitFrom(s, re, m.pos, m.pos)
Split(s, re) ==
  IF s = <<>> THEN (IF Match(s, <<re>>, 1, NoCaps).ok THEN <<>> ELSE <<s>>)
  ELSE SplitFrom(s, re, 1, 1)

\* the decimal numeral of n, as a template literal prints a number
RECURSIVE Dec(_)
Dec(n) ==
  IF n < 10 THEN <<DigitChars[n + 1]>>
  ELSE Dec(n \div 10) \o <<DigitChars[(n % 10) + 1]>>

\* String.prototype.replace(regexp, '') with a non-global regexp
ReplaceFirst(s, re) ==
  LET m == Exec(s, re, 1)
  IN IF m.ok THEN Slice(s, 1, m.start) \o Slice(s, m.pos, Len(s) + 1) ELSE s

\* Array.prototype.filter(Boolean) on an array of strings
RECURSIVE FilterBoolean(_)
FilterBoolean(a) ==
  IF a = <<>> THEN <<>>
  ELSE (IF Head(a) # <<>> THEN <<Head(a)>> ELSE <<>>) \o FilterBoolean(Tail(a))

----------------------------------------------------------------------------
(* The patterns of the source.                                             *)

Fence == RLit(<<Tick, Tick, Tick>>)
\* [\w\-./]+\.[a-zA-Z]+
PathPattern == RSeq(<<RPlus(PathChar), RSet({"."}), RPlus(Alpha)>>)

\* /([\w\-./]+\.[a-zA-Z]+):(\d+)(?:-(\d+))?/g
fileLinePattern ==
  RSeq(<<RGroup(1, PathPattern), RSet({":"}), RGroup(2, RPlus(Digit)),
         ROpt(RSeq(<<RSet({"-"}), RGroup(3, RPlus(Digit))>>))>>)

\* /```(?:[a-zA-Z]+)?\s*(?:([\w\-./]+\.[a-zA-Z]+))?[\s\S]*?```/g
codeBlockPattern ==
  RSeq(<<Fence, ROpt(RPlus(Alpha)), RStar(Space),
         ROpt(RGroup(1, PathPattern)), RLazyStar(AnyChar), Fence>>)
codeBlockRegex == codeBlockPattern

\* /```(?:[a-zA-Z]+)?\s*(?:[\w\-./]+\.[a-zA-Z]+)?\s*\n?/
fenceHeadRegex ==
  RSeq(<<Fence, ROpt(RPlus(Alpha)), RStar(Space),
         ROpt(PathPattern), RStar(Space), ROpt(RSet({"\n"}))>>)
\* /\n?```$/
fenceTailRegex == RSeq(<<ROpt(RSet({"\n"})), Fence, REnd>>)

sAnalysis == <<"A","n","a","l","y","s","i","s">>
sIssueAnalysis == <<"I","s","s","u","e"," ","A","n","a","l","y","s","i","s">>
sSolution == <<"S","o","l","u","t","i","o","n">>
sStepByStep == <<"S","t","e","p","-","b","y","-","s","t","e","p"," ","s","o","l","u","t","i","o","n">>
sSuggested == <<"S","u","g","g","e","s","t","e","d"," ","s","o","l","u","t","i","o","n">>
sBestPractices == <<"B","e","s","t"," ","P","r","a","c","t","i","c","e","s">>
sPrevention == <<"P","r","e","v","e","n","t","i","o","n">>
sCodeImprovements == <<"C","o","d","e"," ","I","m","p","r","o","v","e","m","e","n","t","s">>
sSuggestedImprovements == <<"S","u","g","g","e","s","t","e","d"," ","I","m","p","r","o","v","e","m","e","n","t","s">>
sConclusion == <<"C","o","n","c","l","u","s","i","o","n">>

ColonOrSpace == {":"} \cup Space
\* (.*?) under the s flag, as capture group 1
LazyBody == RGroup(1, RLazyStar(AnyChar))
\* \n\s*
LineStart == RSeq(<<RSet({"\n"}), RStar(Space)>>)

\* /(?:Analysis|Issue Analysis)[:\s]+(.*?)(?=\n\s*(?:Solution|Step-by-step solution|Suggested solution|\d\.\s*Solution))/is
analysisRegex ==
  RSeq(<<RAlt(<<RLitI(sAnalysis), RLitI(sIssueAnalysis)>>), RPlus(ColonOrSpace), LazyBody,
         RLook(RSeq(<<LineStart,
            RAlt(<<RLitI(sSolution), RLitI(sStepByStep), RLitI(sSuggested),
                   RSeq(<<RSet(Digit), RSet({"."}), RStar(Space), RLitI(sSolution)>>)>>)>>))>>)

\* /(?:Solution|Step-by-step solution|Suggested solution)[:\s]+(.*?)(?=\n\s*(?:Best Practices|Prevention|\d\.\s*Best Practices))/is
solutionRegex ==
  RSeq(<<RAlt(<<RLitI(sSolution), RLitI(sStepByStep), RLitI(sSuggested)>>), RPlus(ColonOrSpace), LazyBody,
         RLook(RSeq(<<LineStart,
            RAlt(<<RLitI(sBestPractices), RLitI(sPrevention),
                   RSeq(<<RSet(Digit), RSet({"."}), RStar(Space), RLitI(sBestPractices)>>)>>)>>))>>)

\* /(?:Best Practices|Prevention)[:\s]+(.*?)(?=\n\s*(?:Code Improvements|Suggested Improvements|Conclusion|$))/is
bestPracticesRegex ==
  RSeq(<<RAlt(<<RLitI(sBestPractices), RLitI(sPrevention)>>), RPlus(ColonOrSpace), LazyBody,
         RLook(RSeq(<<LineStart,
            RAlt(<<RLitI(sCodeImprovements), RLitI(sSuggestedImprovements),
                   RLitI(sConclusion), REnd>>)>>))>>)

\* /\n\s*(?:\d+\.|-|\*)\s+/
practiceSplitRegex ==
  RSeq(<<RSet({"\n"}), RStar(Space),
         RAlt(<<RSeq(<<RPlus(Digit), RSet({"."})>>), RSet({"-"}), RSet({"*"})>>),
         RPlus(Space)>>)

----------------------------------------------------------------------------
(* IssueAnalyzerService.extractFileReferences                              *)

\* LineRange with the loop bound i < endLine
LineRangeExclusive(startLine, endLine) ==
  [i \in 1..(endLine - startLine) |-> startLine + i - 1]

\* for (let i = startLine; i <= endLine; i++) lineNumbers.push(i)
LineRange(startLine, endLine) ==
  [i \in 1..(endLine - startLine + 1) |-> startLine + i - 1]

\* the object pass 1 pushes for one match of fileLinePattern
Pass1Entry(s, m) ==
  LET filePath == Group(s, m, 1)
      startLine == ParseInt(Group(s, m, 2))
      endLine == IF HasGroup(m, 3) /\ Group(s, m, 3) # <<>>
                   THEN ParseInt(Group(s, m, 3)) ELSE startLine
  IN [path |-> filePath, lineNumbers |-> LineRange(startLine, endLine)]

\* the entry put in front of the array
Pass1Unshift(refs, entry) == <<entry>> \o refs

\* fileReferences.push({ path: filePath, lineNumbers }) of pass 1
Pass1Push(refs, entry) == Append(refs, entry)

\* fileReferences.some(ref => ref.path === filePath)
SomePath(refs, filePath) == \E i \in 1..Len(refs) : refs[i].path = filePath

\* Pass2Push without the some(...) test
Pass2PushAlways(refs, s, m) ==
  IF HasGroup(m, 1) /\ Group(s, m, 1) # <<>>
    THEN Append(refs, [path |-> Group(s, m, 1), lineNumbers |-> <<>>])
    ELSE refs

\* fileReferences after pass 2 handled one match of codeBlockPattern
Pass2Push(refs, s, m) ==
  IF HasGroup(m, 1) /\ Group(s, m, 1) # <<>>
    THEN IF ~SomePath(refs, Group(s, m, 1))
           THEN Append(refs, [path |-> Group(s, m, 1), lineNumbers |-> <<>>])
           ELSE refs
    ELSE refs

\* one array shared by all calls: what the previous call left is kept
SharedReferences(prev) == prev

\* const fileReferences = []: every call starts with an array of its own
FreshReferences(prev) == <<>>

\* if (!issueBody) return [];
ExtractEnter ==
  /\ pc = "extract"
  /\ IF ~Truthy(issueBody)
       THEN /\ result' = <<>>
            /\ pc' = "done"
            /\ fileReferences' = <<>>
            /\ UNCHANGED lastIndex
       ELSE /\ pc' = "pass1"
            /\ lastIndex' = 1
            /\ fileReferences' = FreshReferences(fileReferences)
            /\ UNCHANGED result
  /\ UNCHANGED <<issueBody, pass1Refs, parseVars, thrown, otherVars>>

\* one iteration of the while loop over fileLinePattern.exec
Pass1Step ==
  /\ pc = "pass1"
  /\ LET m == Exec(issueBody.s, fileLinePattern, lastIndex)
     IN IF m.ok
          THEN /\ fileReferences' = Pass1Push(fileReferences, Pass1Entry(issueBody.s, m))
               /\ lastIndex' = m.pos
               /\ UNCHANGED <<pc, pass1Refs>>
          ELSE /\ pc' = "pass2"
               /\ lastIndex' = 1
               /\ pass1Refs' = fileReferences
               /\ UNCHANGED fileReferences
  /\ UNCHANGED <<issueBody, result, parseVars, thrown, otherVars>>

\* one iteration of the while loop over codeBlockPattern.exec
Pass2Step ==
  /\ pc = "pass2"
  /\ LET m == Exec(issueBody.s, codeBlockPattern, lastIndex)
     IN IF m.ok
          THEN /\ fileReferences' = Pass2Push(fileReferences, issueBody.s, m)
               /\ lastIndex' = m.pos
               /\ UNCHANGED pc
          ELSE /\ pc' = "return"
               /\ lastIndex' = 1
               /\ UNCHANGED fileReferences
  /\ UNCHANGED <<issueBody, pass1Refs, result, parseVars, thrown, otherVars>>

\* catch (error) of pass 1: logs, keeps what was registered
Pass1Caught(refs) == refs

\* a catch block that gives up what was registered
Pass2CaughtEmpty(refs) == <<>>

\* catch (error) of pass 2: logs, keeps what was registered
Pass2Caught(refs) == refs

\* an exception inside the try block of pass 1 (exec converts its argument
\* to a string at every iteration, push grows the array): control goes to
\* the catch block and on to pass 2
Pass1Throw ==
  /\ pc = "pass1"
  /\ failed' = failed \cup {"pass1"}
  /\ fileReferences' = Pass1Caught(fileReferences)
  /\ pass1Refs' = fileReferences
  /\ pc' = "pass2"
  /\ lastIndex' = 1
  /\ UNCHANGED <<issueBody, result, parseVars, thrown, callVars, routeVars>>

\* an exception inside the try block of pass 2: control goes to the catch
\* block and on to the return statement
Pass2Throw ==
  /\ pc = "pass2"
  /\ failed' = failed \cup {"pass2"}
  /\ fileReferences' = Pass2Caught(fileReferences)
  /\ pc' = "return"
  /\ lastIndex' = 1
  /\ UNCHANGED <<issueBody, pass1Refs, result, parseVars, thrown, callVars, routeVars>>

\* return fileReferences;
ExtractReturn ==
  /\ pc = "return"
  /\ result' = fileReferences
  /\ pc' = "done"
  /\ UNCHANGED <<issueBody, fileReferences, pass1Refs, lastIndex, parseVars, thrown, otherVars>>

----------------------------------------------------------------------------
(* GeminiService.parseAIResponse                                           *)

DefaultSolution ==
  [analysis |-> <<>>, solution |-> <<>>, codeSnippets |-> <<>>, bestPractices |-> <<>>]

\* the analysis field: labelled section, else the first paragraph
AnalysisOf(s) ==
  LET analysisMatch == Exec(s, analysisRegex, 1)
  IN IF analysisMatch.ok /\ Group(s, analysisMatch, 1) # <<>>
       THEN Trim(Group(s, analysisMatch, 1))
       ELSE Trim(FirstParagraph(s))

\* SolutionOf with a placeholder text when no section is found
SolutionOrPlaceholder(s) ==
  LET solutionMatch == Exec(s, solutionRegex, 1)
  IN IF solutionMatch.ok /\ Group(s, solutionMatch, 1) # <<>>
       THEN Trim(Group(s, solutionMatch, 1))
       ELSE <<"N","/","A">>

\* the solution field: labelled section, else left as ''
SolutionOf(s) ==
  LET solutionMatch == Exec(s, solutionRegex, 1)
  IN IF solutionMatch.ok /\ Group(s, solutionMatch, 1) # <<>>
       THEN Trim(Group(s, solutionMatch, 1))
       ELSE <<>>

\* SplitPractices without the final map(p => p.trim())
SplitPracticesUntrimmed(practicesText) ==
  FilterBoolean(Split(practicesText, practiceSplitRegex))

\* practicesText.split(...).filter(Boolean).map(p => p.trim())
SplitPractices(practicesText) ==
  LET practices == FilterBoolean(Split(practicesText, practiceSplitRegex))
  IN [i \in 1..Len(practices) |-> Trim(practices[i])]

\* the bestPractices field
BestPracticesOf(s) ==
  LET bestPracticesMatch == Exec(s, bestPracticesRegex, 1)
  IN IF bestPracticesMatch.ok /\ Group(s, bestPracticesMatch, 1) # <<>>
       THEN SplitPractices(Trim(Group(s, bestPracticesMatch, 1)))
       ELSE <<>>

\* codeBlock.replace(head, '').replace(tail, '')
StripFences(codeBlock) == ReplaceFirst(ReplaceFirst(codeBlock, fenceHeadRegex), fenceTailRegex)

\* PathMatches with the first test only
PathMatchesOneWay(f, filePath) == Includes(f.path, filePath)

\* f.path.includes(filePath) || filePath.includes(f.path)
PathMatches(f, filePath) == Includes(f.path, filePath) \/ Includes(filePath, f.path)

\* FindFile returning the last matching file
FindLastFile(files, filePath) ==
  LET hits == {i \in 1..Len(files) : PathMatches(files[i], filePath)}
  IN IF hits = {} THEN 0 ELSE CHOOSE i \in hits : \A j \in hits : i >= j

\* fileContents.find(...): index of the first matching file, 0 for undefined
FindFile(files, filePath) ==
  LET hits == {i \in 1..Len(files) : PathMatches(files[i], filePath)}
  IN IF hits = {} THEN 0 ELSE CHOOSE i \in hits : \A j \in hits : i <= j

\* the object pushed to solution.codeSnippets for one match of codeBlockRegex
SnippetOf(s, m, fc) ==
  LET codeBlock == Matched(s, m)
      filePath == IF HasGroup(m, 1) THEN Group(s, m, 1) ELSE <<>>
      code == StripFences(codeBlock)
      found == IF filePath # <<>> /\ fc.tag = "array" THEN FindFile(fc.a, filePath) ELSE 0
  IN [filePath |-> IF found > 0 THEN fc.a[found].path ELSE filePath,
      originalCode |-> IF found > 0 THEN fc.a[found].content ELSE <<>>,
      suggestedCode |-> code,
      lineNumbers |-> <<>>]

\* aiResponse.match(...) on null or undefined raises a TypeError
ParseAnalysis ==
  /\ pc = "analysis"
  /\ IF aiResponse.tag # "string"
       THEN /\ thrown' = TRUE
            /\ pc' = "done"
            /\ solution' = DefaultSolution
       ELSE /\ solution' = [DefaultSolution EXCEPT !.analysis = AnalysisOf(aiResponse.s)]
            /\ pc' = "solution"
            /\ UNCHANGED thrown
  /\ UNCHANGED <<aiResponse, fileContents, extractVars, otherVars>>

ParseSolution ==
  /\ pc = "solution"
  /\ solution' = [solution EXCEPT !.solution = SolutionOf(aiResponse.s)]
  /\ pc' = "practices"
  /\ UNCHANGED <<aiResponse, fileContents, extractVars, thrown, otherVars>>

ParseBestPractices ==
  /\ pc = "practices"
  /\ solution' = [solution EXCEPT !.bestPractices = BestPracticesOf(aiResponse.s)]
  /\ pc' = "snippets"
  /\ lastIndex' = 1
  /\ UNCHANGED <<aiResponse, fileContents, issueBody, fileReferences, pass1Refs,
               result, thrown, otherVars>>

\* the snippet put in front of the array
UnshiftSnippet(snippets, snippet) == <<snippet>> \o snippets

\* solution.codeSnippets.push({...})
PushSnippet(snippets, snippet) == Append(snippets, snippet)

\* one iteration of the while loop over codeBlockRegex.exec
ParseSnippetStep ==
  /\ pc = "snippets"
  /\ LET codeMatch == Exec(aiResponse.s, codeBlockRegex, lastIndex)
     IN IF codeMatch.ok
          THEN /\ solution' = [solution EXCEPT !.codeSnippets =
                                 PushSnippet(@, SnippetOf(aiResponse.s, codeMatch, fileContents))]
               /\ lastIndex' = codeMatch.pos
               /\ UNCHANGED pc
          ELSE /\ pc' = "parsed"
               /\ lastIndex' = 1
               /\ UNCHANGED solution
  /\ UNCHANGED <<aiResponse, fileContents, issueBody, fileReferences, pass1Refs,
               result, thrown, otherVars>>

ParseReturn ==
  /\ pc = "parsed"
  /\ pc' = "done"
  /\ UNCHANGED <<parseVars, extractVars, thrown, otherVars>>

----------------------------------------------------------------------------
(* router.post('/:repoUrl/create-ai-issue') and the Issue collection.  A    *)
(* stored document is kept with the fields the route reads and writes.  A  *)
(* request is handled in three steps, separated by the handler's awaits:   *)
(* validation, Issue.findOne(...).sort(...), Issue.create(...).  Requests   *)
(* arrive on two connections; each connection sends a bounded number of    *)
(* requests, the next one after the response to the one before.            *)

MaxIssues == 11
MaxConcurrent == 2

Repos == {"https://github.com/o/a", "https://github.com/o/b"}
Handlers == {1, 2}

\* req.body.title and req.body.body
BodyFields == {Undefined, Str(<<>>), Str(<<"t">>)}
\* req.body.fileReferences: the requests carry none
RefFields == {Undefined}

\* code unit of the characters of an AI issue number
CharCode(c) ==
  IF c \in Digit THEN 48 + DigitValue(c)
  ELSE IF c = "-" THEN 45 ELSE IF c = "A" THEN 65 ELSE 73

\* a < b in the order sort() puts strings in: code unit by code unit, a
\* proper prefix first
StringLess(a, b) ==
  \E i \in 1..(Len(a) + 1) :
    /\ i <= Len(b)
    /\ \A j \in 1..(i - 1) : a[j] = b[j]
    /\ (i = Len(a) + 1 \/ CharCode(a[i]) < CharCode(b[i]))

\* /^AI-\d+$/
aiNumberRegex == RSeq(<<RLit(<<"A","I","-">>), RPlus(Digit), REnd>>)
\* { issueNumber: { $regex: /^AI-\d+$/ } }: strings only, matched from the start
IsAINumber(v) == v.tag = "string" /\ Match(v.s, <<aiNumberRegex>>, 1, NoCaps).ok

\* Issue.findOne({repositoryUrl, issueNumber: {$regex}}).sort({issueNumber: -1}):
\* index of the matching document with the greatest issueNumber string, 0 for null
HighestAIIssue(docs, repoUrl) ==
  LET hits == {i \in 1..Len(docs) :
                 docs[i].repositoryUrl = repoUrl /\ IsAINumber(docs[i].issueNumber)}
  IN IF hits = {} THEN 0
     ELSE Least({i \in hits : \A j \in hits :
                   ~StringLess(docs[i].issueNumber.s, docs[j].issueNumber.s)})

\* nextAINumber: 1, or parseInt(highestAIIssue.issueNumber.split('-')[1], 10) + 1
NextAINumber(docs, repoUrl) ==
  LET highestAIIssue == HighestAIIssue(docs, repoUrl)
  IN IF highestAIIssue = 0 THEN 1
     ELSE ParseInt(Split(docs[highestAIIssue].issueNumber.s, RLit(<<"-">>))[2]) + 1

\* `AI-${nextAINumber}`
AIIssueNumber(n) == Str(<<"A","I","-">> \o Dec(n))

\* the document Issue.create stores
NewIssue(repoUrl, n, title, body, refs) ==
  [repositoryUrl |-> repoUrl, issueNumber |-> AIIssueNumber(n),
   title |-> title, body |-> body, state |-> "open", fileReferences |-> refs]

\* const { fileReferences = [] } = req.body
RefsOrDefault(v) == IF v = Undefined THEN <<>> ELSE v.a

IdleHandler(status, left) ==
  [pc |-> "idle", repoUrl |-> "", title |-> Undefined, body |-> Undefined,
   fileReferences |-> <<>>, nextAINumber |-> 0, status |-> status, left |-> left]
Busy(h) == handlers[h].pc # "idle"

\* no request answered yet
NoResponse ==
  [route |-> "none", repoUrl |-> "", issueNumber |-> <<>>, refresh |-> FALSE,
   found |-> 0, status |-> 0, issue |-> Null, aiSolution |-> Null]

\* the request arrives: 400 without title or body, else the findOne query
\* is sent
ReceiveCreate(h) ==
  /\ pc = "serve"
  /\ ~Busy(h)
  /\ handlers[h].left > 0
  /\ \E repoUrl \in Repos, title \in BodyFields, body \in BodyFields, refs \in RefFields :
       IF ~Truthy(title) \/ ~Truthy(body)
         THEN /\ handlers' = [handlers EXCEPT ![h] = IdleHandler(400, handlers[h].left - 1)]
              /\ UNCHANGED overlapped
         ELSE /\ handlers' = [handlers EXCEPT ![h] =
                   [pc |-> "find", repoUrl |-> repoUrl, title |-> title, body |-> body,
                    fileReferences |-> RefsOrDefault(refs), nextAINumber |-> 0, status |-> 0, left |-> handlers[h].left - 1]]
              /\ overlapped' = (overlapped \/ \E g \in Handlers : Busy(g))
  /\ UNCHANGED <<pc, issues, aiSolutions, created, response,
                 extractVars, parseVars, thrown, failed, callVars>>

\* the findOne query is answered and the next number computed; the create
\* is sent
FindHighest(h) ==
  /\ pc = "serve"
  /\ handlers[h].pc = "find"
  /\ handlers' = [handlers EXCEPT ![h].pc = "create",
                                   ![h].nextAINumber = NextAINumber(issues, handlers[h].repoUrl)]
  /\ UNCHANGED <<pc, issues, overlapped, aiSolutions, created, response,
                 extractVars, parseVars, thrown, failed, callVars>>

\* Issue.create stores the document; the response is 201
CreateIssue(h) ==
  /\ pc = "serve"
  /\ handlers[h].pc = "create"
  /\ LET newIssue == NewIssue(handlers[h].repoUrl, handlers[h].nextAINumber,
                              handlers[h].title, handlers[h].body,
                              handlers[h].fileReferences)
     IN /\ issues' = Append(issues, newIssue)
        /\ created' = created \cup {[id |-> Len(issues) + 1, doc |-> newIssue]}
  /\ handlers' = [handlers EXCEPT ![h] = IdleHandler(201, handlers[h].left)]
  /\ UNCHANGED <<pc, overlapped, aiSolutions, response,
                 extractVars, parseVars, thrown, failed, callVars>>

----------------------------------------------------------------------------
(* router.get('/:repoUrl/:issueNumber'), router.post('/:repoUrl/           *)
(* :issueNumber/analyze') and, in repoRoutes.js, router.get('/:repoUrl/    *)
(* analyze').  Each of these requests is handled in one step, on a         *)
(* connection that has no request in flight.  A document's _id is its      *)
(* position in the collection: no route deletes a document.  GitHub and    *)
(* the AI service answer or fail as they please.                           *)

MaxRequests == 3

\* req.params.issueNumber
IssueNumberParams == {<<"A","I","-","1">>, <<"7">>}
\* req.query.refresh === 'true'
RefreshParams == BOOLEAN

\* a JavaScript number, written in decimal
Num(n) == [tag |-> "number", s |-> Dec(n)]
\* /^\d+$/
numericRegex == RSeq(<<RPlus(Digit), REnd>>)
\* /^\d+$/.test(issueNumber) ? parseInt(issueNumber, 10) : issueNumber
ParsedIssueNumber(issueNumber) ==
  IF Match(issueNumber, <<numericRegex>>, 1, NoCaps).ok
    THEN Num(ParseInt(issueNumber))
    ELSE Str(issueNumber)
\* typeof parsedIssueNumber === 'string' && parsedIssueNumber.startsWith('AI-')
IsAIParam(v) == v.tag = "string" /\ LitAt(v.s, 1, <<"A","I","-">>, FALSE)

\* Issue.findOne({ repositoryUrl, issueNumber }): the first matching
\* document's _id, 0 for null
FindIssue(docs, repoUrl, n) ==
  LET hits == {i \in 1..Len(docs) :
                 docs[i].repositoryUrl = repoUrl /\ docs[i].issueNumber = n}
  IN IF hits = {} THEN 0 ELSE Least(hits)

\* Issue.findOneAndUpdate({ repositoryUrl, issueNumber }, doc, { upsert: true }):
\* the fields of the first matching document are set to those of doc, and
\* doc is inserted when there is none
Upsert(docs, repoUrl, n, doc) ==
  LET i == FindIssue(docs, repoUrl, n)
  IN IF i = 0 THEN Append(docs, doc) ELSE [docs EXCEPT ![i] = doc]

\* AISolution.findOne({ issue: issue._id }) || null
SolutionOfIssue(solutions, id) == IF id \in solutions THEN [issue |-> id] ELSE Null

\* githubService.fetchIssue: Null when it throws, else the issue's title;
\* the fetched issues have no body, and extractFileReferences('') is []
GitHubAnswers == {Null, Str(<<"g">>)}
GitHubIssue(repoUrl, n, title) ==
  [repositoryUrl |-> repoUrl, issueNumber |-> n, title |-> title,
   body |-> Str(<<>>), state |-> "open", fileReferences |-> <<>>]

\* the request and its answer
Answer(route, repoUrl, issueNumber, refresh, found, status, issue, aiSolution) ==
  [route |-> route, repoUrl |-> repoUrl, issueNumber |-> issueNumber,
   refresh |-> refresh, found |-> found, status |-> status,
   issue |-> issue, aiSolution |-> aiSolution]

\* the connection h takes one more request and answers it at once
Serve(h) ==
  /\ pc = "serve"
  /\ ~Busy(h)
  /\ handlers[h].left > 0
  /\ handlers' = [handlers EXCEPT ![h].left = handlers[h].left - 1]

\* GET /api/issues/:repoUrl/:issueNumber
GetIssue(h) ==
  /\ Serve(h)
  /\ \E repoUrl \in Repos, issueNumber \in IssueNumberParams,
        refresh \in RefreshParams, github \in GitHubAnswers :
       LET parsedIssueNumber == ParsedIssueNumber(issueNumber)
           found == FindIssue(issues, repoUrl, parsedIssueNumber)
           upserted == Upsert(issues, repoUrl, parsedIssueNumber,
                              GitHubIssue(repoUrl, parsedIssueNumber, github))
           issue == IF found = 0 \/ refresh
                      THEN FindIssue(upserted, repoUrl, parsedIssueNumber)
                      ELSE found
           Reply(status, docs, id) ==
             /\ issues' = docs
             /\ response' = Answer("getIssue", repoUrl, issueNumber, refresh, found, status,
                                   IF id = 0 THEN Null ELSE docs[id],
                                   IF id = 0 THEN Null ELSE SolutionOfIssue(aiSolutions, id))
       IN IF found = 0 \/ refresh
            THEN IF IsAIParam(parsedIssueNumber) THEN Reply(404, issues, 0)
                 ELSE IF github = Null THEN Reply(500, issues, 0)
                 ELSE Reply(200, upserted, issue)
            ELSE Reply(200, issues, issue)
  /\ UNCHANGED <<pc, overlapped, aiSolutions, created,
                 extractVars, parseVars, thrown, failed, callVars>>

\* geminiService.analyzeIssue answers or throws
GeminiAnswers == {"analysis", "throws"}

\* POST /api/issues/:repoUrl/:issueNumber/analyze
AnalyzeIssue(h) ==
  /\ Serve(h)
  /\ \E repoUrl \in Repos, issueNumber \in IssueNumberParams,
        github \in GitHubAnswers, gemini \in GeminiAnswers :
       LET parsedIssueNumber == ParsedIssueNumber(issueNumber)
           found == FindIssue(issues, repoUrl, parsedIssueNumber)
           fetched == Append(issues, GitHubIssue(repoUrl, parsedIssueNumber, github))
           docs == IF found = 0 THEN fetched ELSE issues
           issue == IF found = 0 THEN Len(fetched) ELSE found
           Reply(status, stored, solutions, id) ==
             /\ issues' = stored
             /\ aiSolutions' = solutions
             /\ response' = Answer("analyzeIssue", repoUrl, issueNumber, FALSE, found, status,
                                   Null, SolutionOfIssue(solutions, id))
       IN IF found = 0 /\ IsAIParam(parsedIssueNumber) THEN Reply(404, issues, aiSolutions, 0)
          ELSE IF found = 0 /\ github = Null THEN Reply(500, issues, aiSolutions, 0)
          ELSE IF gemini = "throws" THEN Reply(500, docs, aiSolutions, 0)
          ELSE Reply(200, docs, aiSolutions \cup {issue}, issue)
  /\ UNCHANGED <<pc, overlapped, created,
                 extractVars, parseVars, thrown, failed, callVars>>

\* ['"] and [^'"]
Quote == {"'", "\""}
NotQuote == AnyChar \ Quote
\* /password\s*[:=]\s*['"]+[^'"]+['"]/ and the four patterns after it
CredentialPattern(key) ==
  RSeq(<<key, RStar(Space), RSet({":", "="}), RStar(Space),
         RPlus(Quote), RPlus(NotQuote), RSet(Quote)>>)
credentialPatterns ==
  <<CredentialPattern(RLit(<<"p","a","s","s","w","o","r","d">>)),
    CredentialPattern(RSeq(<<RLit(<<"a","p","i">>), ROpt(RSet({"_", "-"})), RLit(<<"k","e","y">>)>>)),
    CredentialPattern(RLit(<<"s","e","c","r","e","t">>)),
    CredentialPattern(RLit(<<"t","o","k","e","n">>)),
    CredentialPattern(RLit(<<"a","u","t","h">>))>>

Finding(type, description) == [type |-> type, description |-> description]
When(cond, finding) == IF cond THEN <<finding>> ELSE <<>>

\* IssueAnalyzerService.analyzeCode(code), code a non-empty string
AnalyzeCode(code) ==
  When(Includes(code, <<"c","o","n","s","o","l","e",".","l","o","g">>) \/ Includes(code, <<"c","o","n","s","o","l","e",".","d","e","b","u","g">>)
         \/ Includes(code, <<"c","o","n","s","o","l","e",".","e","r","r","o","r">>),
       Finding(<<"d","e","b","u","g","g","i","n","g">>, <<"D","e","b","u","g"," ","s","t","a","t","e","m","e","n","t","s"," ","f","o","u","n","d"," ","i","n"," ","c","o","d","e">>))
  \o When(Includes(code, <<"T","O","D","O">>) \/ Includes(code, <<"F","I","X","M","E">>)
            \/ Includes(code, <<"H","A","C","K">>) \/ Includes(code, <<"X","X","X">>),
          Finding(<<"i","n","c","o","m","p","l","e","t","e">>, <<"T","O","D","O",","," ","F","I","X","M","E",","," ","H","A","C","K"," ","o","r"," ","X","X","X"," ","c","o","m","m","e","n","t","s"," ","f","o","u","n","d">>))
  \o When(Includes(code, <<"e","v","a","l","(">>) \/ Includes(code, <<"n","e","w"," ","F","u","n","c","t","i","o","n","(">>),
          Finding(<<"s","e","c","u","r","i","t","y">>, <<"P","o","t","e","n","t","i","a","l","l","y"," ","u","n","s","a","f","e"," ","c","o","d","e"," ","e","x","e","c","u","t","i","o","n">>))
  \o When(\E i \in 1..Len(credentialPatterns) : Exec(code, credentialPatterns[i], 1).ok,
          Finding(<<"s","e","c","u","r","i","t","y">>, <<"P","o","t","e","n","t","i","a","l"," ","h","a","r","d","c","o","d","e","d"," ","c","r","e","d","e","n","t","i","a","l","s"," ","f","o","u","n","d">>))

codeFileExtensions ==
  {<<".","j","s">>, <<".","j","s","x">>, <<".","t","s">>, <<".","t","s","x">>, <<".","p","y">>, <<".","j","a","v","a">>, <<".","c">>, <<".","c","p","p">>, <<".","c","s">>,
   <<".","g","o">>, <<".","r","b">>, <<".","p","h","p">>, <<".","h","t","m","l">>, <<".","c","s","s">>, <<".","s","c","s","s">>, <<".","j","s","o","n">>, <<".","y","m","l">>, <<".","y","a","m","l">>}
\* file.path.substring(file.path.lastIndexOf('.')) is a code file extension
IsCodeFile(file) ==
  /\ Includes(file.path, <<".">>)
  /\ LET dot == CHOOSE i \in 1..Len(file.path) :
                  file.path[i] = "." /\ \A j \in (i + 1)..Len(file.path) : file.path[j] # "."
     IN Slice(file.path, dot, Len(file.path) + 1) \in codeFileExtensions
MaxAnalyzed == 10

\* the analysisResults of the files, in order; a file whose content cannot
\* be fetched (Null) gives none
RECURSIVE AnalysisResults(_)
AnalysisResults(files) ==
  IF files = <<>> THEN <<>>
  ELSE LET file == Head(files)
           found == IF file.content = Null THEN <<>> ELSE AnalyzeCode(file.content.s)
       IN [k \in 1..Len(found) |->
             [filePath |-> file.path, issueType |-> found[k].type,
              description |-> found[k].description]]
          \o AnalysisResults(Tail(files))

\* the document the route stores for analysisResults[i - 1]
AnalysisIssue(repoUrl, i, item) ==
  [repositoryUrl |-> repoUrl, issueNumber |-> AIIssueNumber(i),
   title |-> Str(<<"C","o","d","e"," ","I","s","s","u","e",":"," ">> \o item.issueType),
   body |-> Str(item.description), state |-> "open",
   fileReferences |-> <<[path |-> item.filePath, lineNumbers |-> <<>>]>>]

\* the collection after the loop has saved analysisResults[i - 1] and the
\* results after it
RECURSIVE SaveResults(_, _, _, _)
SaveResults(docs, repoUrl, results, i) ==
  IF i > Len(results) THEN docs
  ELSE SaveResults(Upsert(docs, repoUrl, AIIssueNumber(i),
                          AnalysisIssue(repoUrl, i, results[i])),
                   repoUrl, results, i + 1)

\* what githubService.fetchRepoContents and fetchFileContent give for the
\* repositories: a path and the file's text, Null when the fetch fails
RepoFile(path, content) == [path |-> path, content |-> content]
RepoTrees ==
  {<<>>,
   <<RepoFile(<<"R","E","A","D","M","E">>, Str(<<"T","O","D","O">>)), RepoFile(<<"l","o","g","o",".","p","n","g">>, Str(<<"e","v","a","l","(","x",")">>))>>,
   <<RepoFile(<<"s","r","c","/","a",".","j","s">>, Str(<<"x"," ","="," ","1",";">>))>>,
   <<RepoFile(<<"s","r","c","/","a",".","j","s">>, Str(<<"c","o","n","s","o","l","e",".","l","o","g","(","1",")",";">>))>>,
   <<RepoFile(<<"s","r","c","/","a",".","j","s">>, Str(<<"e","v","a","l","(","x",")",";"," ","/","*"," ","T","O","D","O"," ","*","/">>))>>,
   <<RepoFile(<<"s","r","c","/","a",".","j","s">>, Null), RepoFile(<<"b",".","p","y">>, Str(<<"t","o","k","e","n"," ","="," ","'","a","b","c","'">>))>>,
   <<RepoFile(<<"b",".","p","y">>, Str(<<"/","/"," ","F","I","X","M","E">>)), RepoFile(<<"s","r","c","/","a",".","j","s">>, Str(<<"c","o","n","s","o","l","e",".","e","r","r","o","r","(","e",")">>))>>}

\* GET /api/repos/:repoUrl/analyze
AnalyzeRepo(h) ==
  /\ Serve(h)
  /\ \E repoUrl \in Repos, repoContents \in RepoTrees :
       LET codeFiles == SelectSeq(repoContents, IsCodeFile)
           filesToAnalyze ==
             SubSeq(codeFiles, 1, IF Len(codeFiles) < MaxAnalyzed THEN Len(codeFiles)
                                  ELSE MaxAnalyzed)
           analysisResults == AnalysisResults(filesToAnalyze)
       IN /\ issues' = SaveResults(issues, repoUrl, analysisResults, 1)
          /\ response' = Answer("analyzeRepo", repoUrl, <<>>, FALSE, 0, 200, Null, Null)
  /\ UNCHANGED <<pc, overlapped, aiSolutions, created,
                 extractVars, parseVars, thrown, failed, callVars>>

----------------------------------------------------------------------------
(* Inputs: texts are concatenations of at most MaxFrags fragments.         *)

MaxFrags == 3
MaxSecFrags == 3
MaxBlocks == 2
MaxFiles == 2

RECURSIVE TextsUpTo(_, _)
TextsUpTo(V, n) ==
  IF n = 0 THEN {<<>>}
  ELSE LET shorter == TextsUpTo(V, n - 1)
       IN shorter \cup {t \o f : t \in shorter, f \in V}

\* issue bodies
tokRange == <<"a","/","b","/","f","i","l","e",".","j","s",":","1","0","-","1","2">>
tokLine == <<"f","i","l","e",".","p","y",":","5">>
tokRange2 == <<"f","i","l","e",".","p","y",":","7","-","8">>
barePath == <<"a","/","b","/","f","i","l","e",".","j","s">>
blockLangPath == <<Tick,Tick,Tick,"j","s"," ","f","i","l","e",".","p","y","\n","x","\n",Tick,Tick,Tick>>
tokReversed == <<"f","i","l","e",".","p","y",":","8","-","7">>
tokZero == <<"f","i","l","e",".","p","y",":","0">>
blockNextLine == <<Tick,Tick,Tick,"\n","f","i","l","e",".","p","y","\n","x","\n",Tick,Tick,Tick>>
ExtractFragments ==
  {tokRange, tokLine, tokRange2, tokReversed, tokZero, barePath,
   blockLangPath, blockNextLine, <<" ">>}
ExtractInputs ==
  {Null, Undefined} \cup {Str(t) : t \in TextsUpTo(ExtractFragments, MaxFrags)}

\* AI responses: labelled sections
secAnalysis == <<"A","n","a","l","y","s","i","s",":"," ","b","u","g">>
secSolution == <<"\n","S","o","l","u","t","i","o","n",":"," ","f","i","x">>
secPractices == <<"\n","B","e","s","t"," ","P","r","a","c","t","i","c","e","s",":">>
itemNumbered == <<"\n","1","."," ","V","a","l","i","d","a","t","e"," ","i","n","p","u","t">>
itemHyphen == <<"\n","-"," ","A","v","o","i","d"," ","g","l","o","b","a","l","s">>
itemsSpaced == <<"\n","*"," ","U","s","e"," ","c","o","n","s","t"," ","\n","*"," ","U","s","e"," ","l","e","t"," ","\n">>
plainText == <<"s","o","m","e"," ","t","e","x","t">>
specPractices == <<"B","e","s","t"," ","P","r","a","c","t","i","c","e","s",":"," ","1","."," ","V","a","l","i","d","a","t","e"," ","i","n","p","u","t"," ","2","."," ","A","v","o","i","d"," ","g","l","o","b","a","l","s">>
SectionFragments ==
  {secAnalysis, secSolution, secPractices, itemNumbered, itemHyphen,
   itemsSpaced, plainText, specPractices, <<"\n">>, <<"\n", "\n">>}

\* AI responses: fenced code blocks, each an opening fence line, a body and
\* the closing fence
openLangPath == <<Tick,Tick,Tick,"j","s"," ","s","r","c","/","a","p","p",".","j","s","\n">>
openPath == <<Tick,Tick,Tick,"s","r","c","/","a","p","p",".","j","s","\n">>
openLang == <<Tick,Tick,Tick,"j","s","\n">>
bodyCall == <<"c","o","n","s","o","l","e",".","l","o","g","(","1",")",";","\n">>
bodyIndented == <<" "," ","x"," ","="," ","1",";","\n">>
closeFence == <<Tick,Tick,Tick,"\n">>
Opens == {openLangPath, openPath, openLang}
Bodies == {bodyCall, bodyIndented}
Blocks == {o \o b \o closeFence : o \in Opens, b \in Bodies}
\* and texts around them: a line of prose, an opening fence that is never closed
SnippetFragments == Blocks \cup {<<"F","i","x",":","\n">>, openLang}

\* known files
appJs == [path |-> <<"s","r","c","/","a","p","p",".","j","s">>, content |-> <<"l","e","t"," ","a",";">>]
shortJs == [path |-> <<"a","p","p",".","j","s">>, content |-> <<"l","e","t"," ","b",";">>]
otherPy == [path |-> <<"x",".","p","y">>, content |-> <<"d"," ","="," ","1">>]
KnownFiles == {appJs, shortJs, otherPy}

RECURSIVE FileListsUpTo(_)
FileListsUpTo(n) ==
  IF n = 0 THEN {<<>>}
  ELSE LET shorter == FileListsUpTo(n - 1)
       IN shorter \cup {Append(l, f) : l \in shorter, f \in KnownFiles}
NoRepeat(l) == \A i, j \in 1..Len(l) : i # j => l[i] # l[j]
Files(a) == [tag |-> "array", a |-> a]
NoFiles == [tag |-> "null", a |-> <<>>]
FileContentsInputs ==
  {NoFiles} \cup {Files(l) : l \in {x \in FileListsUpTo(MaxFiles) : NoRepeat(x)}}

\* AI responses: whole labelled sections and a fenced block, in any order
partAnalysis == <<"A","n","a","l","y","s","i","s",":"," ","b","u","g","\n">>
partSolution == <<"S","o","l","u","t","i","o","n",":"," ","f","i","x","\n">>
partPractices == <<"B","e","s","t"," ","P","r","a","c","t","i","c","e","s",":","\n","-"," ","A","v","o","i","d"," ","g","l","o","b","a","l","s","\n">>
partBlock == <<Tick,Tick,Tick,"j","s"," ","s","r","c","/","a","p","p",".","j","s","\n","c","o","n","s","o","l","e",".","l","o","g","(","1",")",";","\n",Tick,Tick,Tick,"\n">>
ResponseParts == {partAnalysis, partSolution, partPractices, partBlock}
MaxParts == 3
ResponseInputs ==
  {Str(t) : t \in TextsUpTo(ResponseParts, MaxParts)}
    \X {Files(<<>>), Files(<<appJs>>), Files(<<shortJs, appJs>>)}

SectionInputs ==
  ({Null, Undefined} \cup {Str(t) : t \in TextsUpTo(SectionFragments, MaxSecFrags)})
    \X {Files(<<>>)}
SnippetInputs ==
  {Str(t) : t \in TextsUpTo(SnippetFragments, MaxBlocks)} \X FileContentsInputs

----------------------------------------------------------------------------
(* Further calls on the same service objects: the routes keep one          *)
(* IssueAnalyzerService and one GeminiService and call them request after  *)
(* request.                                                                *)

MaxCalls == 3

RepeatBodies ==
  {Null, Str(tokLine), Str(tokRange \o <<" ">> \o tokLine), Str(blockLangPath),
   Str(tokLine \o <<" ">> \o blockNextLine)}
RepeatResponses ==
  {<<Null, Files(<<>>)>>,
   <<Str(partAnalysis \o partSolution \o partPractices), Files(<<>>)>>,
   <<Str(partBlock), Files(<<appJs>>)>>,
   <<Str(partBlock), Files(<<shortJs, appJs>>)>>}

\* arguments and outcome of the call that is running or has just ended
CallArgs ==
  IF callee = "extractFileReferences" THEN <<issueBody>> ELSE <<aiResponse, fileContents>>
CallOut == IF callee = "extractFileReferences" THEN result ELSE solution
Remember ==
  IF calls = 1
    THEN [callee |-> callee, args |-> CallArgs, out |-> CallOut, thrown |-> thrown]
    ELSE firstCall

\* issueAnalyzer.extractFileReferences(...) once more
CallExtract ==
  /\ pc = "done"
  /\ calls < MaxCalls
  /\ firstCall' = Remember
  /\ calls' = calls + 1
  /\ callee' = "extractFileReferences"
  /\ issueBody' \in RepeatBodies
  /\ pc' = "extract"
  /\ thrown' = FALSE
  /\ failed' = {}
  /\ UNCHANGED <<fileReferences, pass1Refs, lastIndex, result, parseVars, routeVars>>

\* this.parseAIResponse(...) once more
CallParse ==
  /\ pc = "done"
  /\ calls < MaxCalls
  /\ firstCall' = Remember
  /\ calls' = calls + 1
  /\ callee' = "parseAIResponse"
  /\ \E in \in RepeatResponses : aiResponse' = in[1] /\ fileContents' = in[2]
  /\ pc' = "analysis"
  /\ thrown' = FALSE
  /\ UNCHANGED <<solution, extractVars, failed, routeVars>>

----------------------------------------------------------------------------
(* Specifications.                                                         *)

IdleExtract ==
  /\ issueBody = Null
  /\ fileReferences = <<>>
  /\ pass1Refs = <<>>
  /\ result = <<>>
  /\ failed = {}
IdleParse ==
  /\ aiResponse = Null
  /\ fileContents = Files(<<>>)
  /\ solution = DefaultSolution
IdleRoutes ==
  /\ issues = <<>>
  /\ handlers = [h \in Handlers |-> IdleHandler(0, 0)]
  /\ overlapped = FALSE
  /\ aiSolutions = {}
  /\ created = {}
  /\ response = NoResponse

NoCall == [callee |-> "none", args |-> <<>>, out |-> <<>>, thrown |-> FALSE]
\* the first call on freshly constructed service objects
FirstCallOf(method) ==
  /\ callee = method
  /\ calls = 1
  /\ firstCall = NoCall

\* a call of extractFileReferences(issueBody)
InitExtractOn(inputs) ==
  /\ pc = "extract"
  /\ issueBody \in inputs
  /\ fileReferences = <<>>
  /\ pass1Refs = <<>>
  /\ result = <<>>
  /\ failed = {}
  /\ lastIndex = 1
  /\ thrown = FALSE
  /\ IdleParse
  /\ IdleRoutes
  /\ FirstCallOf("extractFileReferences")
InitExtract == InitExtractOn(ExtractInputs)

\* a call of parseAIResponse(aiResponse, issue, fileContents)
InitParse(inputs) ==
  /\ pc = "analysis"
  /\ \E in \in inputs : aiResponse = in[1] /\ fileContents = in[2]
  /\ solution = DefaultSolution
  /\ lastIndex = 1
  /\ thrown = FALSE
  /\ IdleExtract
  /\ IdleRoutes
  /\ FirstCallOf("parseAIResponse")

\* the server with an empty Issue collection and no request in flight; one
\* connection sends all the requests, or both send a few
InitIssues ==
  /\ pc = "serve"
  /\ lastIndex = 1
  /\ thrown = FALSE
  /\ IdleExtract
  /\ IdleParse
  /\ issues = <<>>
  /\ handlers \in {[h \in Handlers |-> IdleHandler(0, IF h = 1 THEN MaxIssues ELSE 0)],
                    [h \in Handlers |-> IdleHandler(0, MaxConcurrent)]}
  /\ overlapped = FALSE
  /\ aiSolutions = {}
  /\ created = {}
  /\ response = NoResponse
  /\ FirstCallOf("router")
InitSections == InitParse(SectionInputs)
InitSnippets == InitParse(SnippetInputs)
InitResponses == InitParse(ResponseInputs)

NextExtract == ExtractEnter \/ Pass1Step \/ Pass2Step \/ ExtractReturn
NextParse ==
  ParseAnalysis \/ ParseSolution \/ ParseBestPractices \/ ParseSnippetStep \/ ParseReturn

SpecExtract == InitExtract /\ [][NextExtract]_vars
SpecSections == InitSections /\ [][NextParse]_vars
SpecSnippets == InitSnippets /\ [][NextParse]_vars
SpecResponses == InitResponses /\ [][NextParse]_vars

\* extractFileReferences with exceptions raised inside its passes
MaxFailFrags == 2
FailInputs == {Str(t) : t \in TextsUpTo(ExtractFragments, MaxFailFrags)}
InitFailing == InitExtractOn(FailInputs)
NextFailing == NextExtract \/ Pass1Throw \/ Pass2Throw
SpecFailing == InitFailing /\ [][NextFailing]_vars

\* calls following one another on the two service objects
InitCalls == InitExtractOn(RepeatBodies) \/ InitParse(RepeatResponses)
NextCalls == NextExtract \/ NextParse \/ CallExtract \/ CallParse
SpecCalls == InitCalls /\ [][NextCalls]_vars

NextIssues == \E h \in Handlers : ReceiveCreate(h) \/ FindHighest(h) \/ CreateIssue(h)
SpecIssues == InitIssues /\ [][NextIssues]_vars

\* all the routes, the requests following one another on one connection
InitStore ==
  /\ pc = "serve"
  /\ lastIndex = 1
  /\ thrown = FALSE
  /\ IdleExtract
  /\ IdleParse
  /\ issues = <<>>
  /\ handlers = [h \in Handlers |-> IdleHandler(0, IF h = 1 THEN MaxRequests ELSE 0)]
  /\ overlapped = FALSE
  /\ aiSolutions = {}
  /\ created = {}
  /\ response = NoResponse
  /\ FirstCallOf("router")
NextStore ==
  \E h \in Handlers :
    \/ ReceiveCreate(h) \/ FindHighest(h) \/ CreateIssue(h)
    \/ GetIssue(h) \/ AnalyzeIssue(h) \/ AnalyzeRepo(h)
SpecStore == InitStore /\ [][NextStore]_vars

Init == InitExtract \/ InitSections \/ InitSnippets \/ InitResponses
Next == NextExtract \/ NextParse
Spec == Init /\ [][Next]_vars

----------------------------------------------------------------------------
(* Properties of extractFileReferences.                                    *)

Returned == pc = "done" /\ ~thrown
PathsOf(refs) == {refs[i].path : i \in 1..Len(refs)}
WithPath(refs, p) == SelectSeq(refs, LAMBDA r : r.path = p)

\* tok stands in s as a token: delimited by white space or the text's ends
TokenAt(s, tok, i) ==
  /\ i + Len(tok) - 1 <= Len(s)
  /\ SubSeq(s, i, i + Len(tok) - 1) = tok
  /\ (i = 1 \/ s[i - 1] \in Space)
  /\ (i + Len(tok) > Len(s) \/ s[i + Len(tok)] \in Space)
HasToken(s, tok) == \E i \in 1..Len(s) : TokenAt(s, tok, i)

TokenPaths == {barePath, <<"f","i","l","e",".","p","y">>}
TokenLines == {5, 7, 8, 10, 12}
Ascending(a, b) == [i \in 1..(b - a + 1) |-> a + i - 1]

\* C1: the sequence returned by one extractFileReferences call holds no two
\* entries with the same path, also when a path occurs in several
\* path:line tokens of the text.
C1_NoDuplicatePaths ==
  Returned =>
    \A i, j \in 1..Len(result) : i # j => result[i].path # result[j].path

\* C2: a token path:start-end yields a reference for that path whose
\* lineNumbers is start, start+1, ..., end; a token path:line yields
\* lineNumbers = [line].
C2_RangeExpanded ==
  (Returned /\ issueBody.tag = "string") =>
    \A p \in TokenPaths, a \in TokenLines :
      /\ HasToken(issueBody.s, p \o <<":">> \o Dec(a)) =>
           \E i \in 1..Len(result) : result[i] = [path |-> p, lineNumbers |-> <<a>>]
      /\ \A b \in TokenLines :
           HasToken(issueBody.s, p \o <<":">> \o Dec(a) \o <<"-">> \o Dec(b)) =>
             \E i \in 1..Len(result) :
               result[i] = [path |-> p, lineNumbers |-> Ascending(a, b)]

C2_Witness ==
  /\ Returned
  /\ HasToken(issueBody.s, tokRange)
  /\ HasToken(issueBody.s, tokLine)
  /\ \E i \in 1..Len(result) :
       result[i] = [path |-> barePath, lineNumbers |-> <<10, 11, 12>>]
  /\ \E i \in 1..Len(result) : result[i].lineNumbers = <<5>>

\* C8: when a fenced block is annotated with a path that pass 1 registered,
\* pass 2 adds no entry for that path and the entries of pass 1 keep their
\* line numbers: for every pass-1 path the returned entries with that path
\* are exactly those pass 1 pushed.
C8_Pass1LinesKept ==
  (Returned /\ Truthy(issueBody)) =>
    /\ SubSeq(result, 1, Len(pass1Refs)) = pass1Refs
    /\ \A p \in PathsOf(pass1Refs) : WithPath(result, p) = WithPath(pass1Refs, p)

C8_Witness ==
  /\ Returned
  /\ issueBody = Str(tokLine \o <<" ">> \o blockLangPath)
  /\ pass1Refs = <<[path |-> <<"f","i","l","e",".","p","y">>, lineNumbers |-> <<5>>]>>
  /\ result = pass1Refs

----------------------------------------------------------------------------
(* Properties of parseAIResponse.                                          *)

Parsed == Returned /\ aiResponse.tag = "string"

analysisLabels == {sAnalysis, sIssueAnalysis}
solutionLabels == {sSolution, sStepByStep, sSuggested}
practicesLabels == {sBestPractices, sPrevention}
AllLabels == analysisLabels \cup solutionLabels \cup practicesLabels

\* some label of L stands somewhere in s, in any letter case
HasLabel(s, L) == \E i \in 1..Len(s), l \in L : LitAt(s, i, l, TRUE)

\* the starts of the sections of s labelled by L: a label followed by a
\* colon or white space
SectionStarts(s, L) ==
  {i \in 1..Len(s) : \E l \in L :
     /\ LitAt(s, i, l, TRUE)
     /\ i + Len(l) <= Len(s)
     /\ s[i + Len(l)] \in ColonOrSpace}

\* the text of the first section labelled by L: what follows the label and
\* its colon or white space, up to the next label or the end of s, trimmed
SectionText(s, L) ==
  LET i == Least(SectionStarts(s, L))
      l == CHOOSE x \in L : /\ LitAt(s, i, x, TRUE)
                            /\ i + Len(x) <= Len(s)
                            /\ s[i + Len(x)] \in ColonOrSpace
      afterLabel == i + Len(l)
      from == Least({j \in afterLabel..(Len(s) + 1) :
                       j = Len(s) + 1 \/ s[j] \notin ColonOrSpace})
      to == Least({j \in from..(Len(s) + 1) :
                     j = Len(s) + 1 \/ \E x \in AllLabels : LitAt(s, j, x, TRUE)})
  IN Trim(Slice(s, from, to))

\* an item begins with a list marker: N. , - or *
StartsWithMarker(item) ==
  \/ Len(item) >= 2 /\ item[1] \in {"-", "*"} /\ item[2] \in Space
  \/ \E n \in 1..(Len(item) - 1) :
       /\ \A i \in 1..n : item[i] \in Digit
       /\ item[n + 1] = "."

\* the fences of s and its blocks: fence 2k-1 opens block k, fence 2k closes it
FenceStarts(s) ==
  {i \in 1..(Len(s) - 2) : s[i] = Tick /\ s[i + 1] = Tick /\ s[i + 2] = Tick}
NthFence(s, n) ==
  CHOOSE i \in FenceStarts(s) : Cardinality({j \in FenceStarts(s) : j < i}) = n - 1
NumBlocks(s) == Cardinality(FenceStarts(s)) \div 2
FenceLineEnd(s, k) ==
  Least({j \in (NthFence(s, 2 * k - 1) + 3)..Len(s) : s[j] = "\n"})
\* the opening fence's line, without the fence
FenceLine(s, k) == Slice(s, NthFence(s, 2 * k - 1) + 3, FenceLineEnd(s, k))
\* the lines between the opening fence's line and the closing fence
BlockBody(s, k) ==
  LET to == NthFence(s, 2 * k)
  IN Slice(s, FenceLineEnd(s, k) + 1, IF s[to - 1] = "\n" THEN to - 1 ELSE to)

\* the path annotation the fence pattern captures for block k ('' if none)
RECURSIVE BlockMatches(_, _)
BlockMatches(s, from) ==
  LET m == Exec(s, codeBlockRegex, from)
  IN IF m.ok THEN <<m>> \o BlockMatches(s, m.pos) ELSE <<>>
\* the annotation captured by match k of ms
Captured(s, ms, k) == IF HasGroup(ms[k], 1) THEN Group(s, ms[k], 1) ELSE <<>>

AnnotatedAppJs == {<<"j","s"," ","s","r","c","/","a","p","p",".","j","s">>, <<"s","r","c","/","a","p","p",".","j","s">>}
Snippets == solution.codeSnippets
KnownList == IF fileContents.tag = "array" THEN fileContents.a ELSE <<>>
Related(path, a) == Includes(path, a) \/ Includes(a, path)

\* C3: null or empty input never throws: extractFileReferences returns an
\* empty sequence and parseAIResponse returns the default structure.
C3_EmptyInputNeverThrows ==
  pc = "done" =>
    /\ ~thrown
    /\ (~Truthy(issueBody)) => result = <<>>
    /\ (~Truthy(aiResponse)) => solution = DefaultSolution

\* C4: a block annotated src/app.js, with a KnownFile of path src/app.js
\* anywhere in knownFiles, gets filePath = src/app.js and that file's content
\* as originalCode.
C4_AnyOrder ==
  Parsed =>
    \A k \in 1..Len(Snippets) :
      (/\ FenceLine(aiResponse.s, k) \in AnnotatedAppJs
       /\ \E i \in 1..Len(KnownList) : KnownList[i] = appJs)
      => /\ Snippets[k].filePath = appJs.path
         /\ Snippets[k].originalCode = appJs.content

\* C4 (amended): the same, for the lists in which no KnownFile before the one
\* with path src/app.js has a path that contains, or is contained in, the
\* annotation captured from the fence line.
C4_FirstRelated ==
  Parsed =>
    LET ms == BlockMatches(aiResponse.s, 1)
    IN \A k \in 1..Len(Snippets) :
         LET a == Captured(aiResponse.s, ms, k)
         IN (/\ FenceLine(aiResponse.s, k) \in AnnotatedAppJs
             /\ a # <<>>
             /\ \E i \in 1..Len(KnownList) :
                  /\ KnownList[i] = appJs
                  /\ \A j \in 1..(i - 1) : ~Related(KnownList[j].path, a))
            => /\ Snippets[k].filePath = appJs.path
               /\ Snippets[k].originalCode = appJs.content

C4_Witness ==
  /\ Parsed
  /\ fileContents = Files(<<appJs, shortJs>>)
  /\ Len(Snippets) = 2
  /\ FenceLine(aiResponse.s, 1) = <<"j","s"," ","s","r","c","/","a","p","p",".","j","s">>
  /\ FenceLine(aiResponse.s, 2) = <<"s","r","c","/","a","p","p",".","j","s">>
  /\ \A k \in 1..2 : Snippets[k].filePath = appJs.path /\ Snippets[k].originalCode = appJs.content

\* C5: the section 'Best Practices: 1. Validate input 2. Avoid globals'
\* yields ['Validate input', 'Avoid globals'], and no returned item carries
\* its list marker.
C5_PracticesSplit ==
  Parsed =>
    /\ aiResponse.s = specPractices =>
         solution.bestPractices = <<<<"V","a","l","i","d","a","t","e"," ","i","n","p","u","t">>, <<"A","v","o","i","d"," ","g","l","o","b","a","l","s">>>>
    /\ \A i \in 1..Len(solution.bestPractices) :
         ~StartsWithMarker(solution.bestPractices[i])

\* C6: a labelled section runs to the next recognized label or, when none
\* follows, to the end of the input: analysis without a later solution
\* label, solution without a later best-practices label and best practices
\* ending the input are still returned.
C6_SectionRunsToEnd ==
  Parsed =>
    LET s == aiResponse.s
    IN /\ (SectionStarts(s, analysisLabels) # {} /\ ~HasLabel(s, solutionLabels))
            => solution.analysis = SectionText(s, analysisLabels)
       /\ (/\ SectionStarts(s, solutionLabels) # {}
           /\ ~HasLabel(s, practicesLabels)
           /\ SectionText(s, solutionLabels) # <<>>)
            => solution.solution # <<>>
       /\ (/\ SectionStarts(s, practicesLabels) # {}
           /\ SectionText(s, practicesLabels) # <<>>)
            => solution.bestPractices # <<>>

\* C7: suggestedCode is the block body exactly as it stands in the text;
\* only the fences and the fence line are removed.
C7_BodyVerbatim ==
  Parsed =>
    \A k \in 1..Len(Snippets) :
      k <= NumBlocks(aiResponse.s) =>
        Snippets[k].suggestedCode = BlockBody(aiResponse.s, k)

\* C9: a text with none of the section labels gets the trimmed first
\* paragraph (the text up to the first blank line) as analysis, '' as
\* solution and no best practices.
C9_NoLabelsFallback ==
  (Parsed /\ ~HasLabel(aiResponse.s, AllLabels)) =>
    LET s == aiResponse.s
        ends == {n \in 0..Len(s) :
                   n = Len(s) \/ (n + 2 <= Len(s) /\ s[n + 1] = "\n" /\ s[n + 2] = "\n")}
    IN /\ solution.analysis = Trim(SubSeq(s, 1, Least(ends)))
       /\ solution.solution = <<>>
       /\ solution.bestPractices = <<>>

C9_Witness ==
  /\ Parsed
  /\ aiResponse.s = plainText \o <<"\n", "\n">> \o plainText
  /\ solution.analysis = plainText
  /\ solution.solution = <<>>
  /\ solution.bestPractices = <<>>

\* C10: a block with a captured non-empty annotation a takes filePath and
\* originalCode from the first KnownFile, in list order, whose path contains
\* a or is contained in a; without such a file filePath is a and
\* originalCode is ''.
C10_FirstKnownFile ==
  Parsed =>
    LET ms == BlockMatches(aiResponse.s, 1)
    IN \A k \in 1..Len(Snippets) :
         LET a == Captured(aiResponse.s, ms, k)
             related == {i \in 1..Len(KnownList) : Related(KnownList[i].path, a)}
         IN a # <<>> =>
              IF related = {}
                THEN Snippets[k].filePath = a /\ Snippets[k].originalCode = <<>>
                ELSE /\ Snippets[k].filePath = KnownList[Least(related)].path
                     /\ Snippets[k].originalCode = KnownList[Least(related)].content

C10_Witness ==
  /\ Parsed
  /\ fileContents = Files(<<otherPy, shortJs>>)
  /\ Len(Snippets) = 2
  /\ LET ms == BlockMatches(aiResponse.s, 1)
     IN /\ Captured(aiResponse.s, ms, 1) = <<"s","r","c","/","a","p","p",".","j","s">>
        /\ Captured(aiResponse.s, ms, 2) = <<"c","o","n","s","o","l","e",".","l","o","g">>
  /\ Snippets[1].filePath = shortJs.path
  /\ Snippets[1].originalCode = shortJs.content
  /\ Snippets[2].filePath = <<"c","o","n","s","o","l","e",".","l","o","g">>
  /\ Snippets[2].originalCode = <<>>

----------------------------------------------------------------------------
(* Further properties of extractFileReferences and parseAIResponse.        *)

StrictlyAscending(l) == \A i \in 1..(Len(l) - 1) : l[i] < l[i + 1]

\* C11: every returned reference has strictly ascending, positive
\* lineNumbers, and lineNumbers is empty only for a reference that pass 2
\* registered from a code-block filename, never for one that pass 1
\* registered from a path:line or path:start-end token.
C11_LinesPositiveAscending ==
  (Returned /\ Truthy(issueBody)) =>
    \A i \in 1..Len(result) :
      /\ StrictlyAscending(result[i].lineNumbers)
      /\ \A k \in 1..Len(result[i].lineNumbers) : result[i].lineNumbers[k] > 0
      /\ result[i].lineNumbers = <<>> => i > Len(pass1Refs)

\* x is a contiguous part of s
IsSubstring(x, s) == Includes(s, x)

\* C12: labels need not appear in order: when the analysis, solution and
\* best-practices sections stand in the text in any permutation, analysis and
\* solution are the text of their own sections and bestPractices is taken
\* from the best-practices section.
C12_AnyPermutation ==
  Parsed =>
    LET s == aiResponse.s
    IN (/\ Cardinality(SectionStarts(s, analysisLabels)) = 1
        /\ Cardinality(SectionStarts(s, solutionLabels)) = 1
        /\ Cardinality(SectionStarts(s, practicesLabels)) = 1)
       => /\ solution.analysis = SectionText(s, analysisLabels)
          /\ solution.solution = SectionText(s, solutionLabels)
          /\ solution.bestPractices # <<>>
          /\ \A i \in 1..Len(solution.bestPractices) :
               IsSubstring(solution.bestPractices[i], SectionText(s, practicesLabels))

HasText(s) == \E i \in 1..Len(s) : s[i] \notin Space

\* C13: analysis is non-empty whenever the text holds an analysis section or
\* a paragraph of non-white-space text, also when the text begins with a
\* blank line; it is empty only when the text holds neither.
C13_AnalysisNonEmpty ==
  Parsed => (HasText(aiResponse.s) => solution.analysis # <<>>)

----------------------------------------------------------------------------
(* Properties of the create-ai-issue route.                                *)

\* the issueNumber strings stored for repoUrl, in creation order
StoredNumbers(repoUrl) ==
  LET docs == SelectSeq(issues, LAMBDA d : d.repositoryUrl = repoUrl)
  IN [k \in 1..Len(docs) |-> docs[k].issueNumber]

\* C15: after sequential create-ai-issue requests for a repository the
\* stored issues have pairwise distinct numbers, the k-th created issue
\* being 'AI-k', also for k > 10.
C15_SequentialNumbers ==
  ~overlapped =>
    \A repoUrl \in Repos :
      \A k \in 1..Len(StoredNumbers(repoUrl)) :
        StoredNumbers(repoUrl)[k] = AIIssueNumber(k)

\* C16: two create-ai-issue requests for one repository handled
\* concurrently, their steps interleaved in any order, never store two
\* issues with the same issueNumber.
C16_ConcurrentDistinct ==
  overlapped =>
    \A i, j \in 1..Len(issues) :
      (i # j /\ issues[i].repositoryUrl = issues[j].repositoryUrl)
        => issues[i].issueNumber # issues[j].issueNumber

----------------------------------------------------------------------------
(* Properties of the routes that read and rewrite stored issues.           *)

\* C23: GET /api/issues/:repoUrl/:issueNumber answers 404 'AI-generated
\* issue not found' only when no issue with that 'AI-' number is stored
\* for the repository; when one is stored the request returns it, with its
\* aiSolution or null, also under refresh=true.
C23_NotFoundOnlyWhenAbsent ==
  (response.route = "getIssue" /\ IsAIParam(ParsedIssueNumber(response.issueNumber))) =>
    /\ response.status = 404 => response.found = 0
    /\ response.found # 0 =>
         /\ response.status = 200
         /\ response.issue # Null
         /\ response.issue.repositoryUrl = response.repoUrl
         /\ response.issue.issueNumber = Str(response.issueNumber)
         /\ response.aiSolution = SolutionOfIssue(aiSolutions, response.found)

\* C24: an issue stored by create-ai-issue is never modified or replaced
\* by a later GET /api/repos/:repoUrl/analyze: its title, body and
\* fileReferences stay those it was created with.
C24_CreatedIssuesKept ==
  \A c \in created :
    /\ c.id <= Len(issues)
    /\ issues[c.id].title = c.doc.title
    /\ issues[c.id].body = c.doc.body
    /\ issues[c.id].fileReferences = c.doc.fileReferences

----------------------------------------------------------------------------
(* Properties of repeated and of failing calls.                            *)

\* C14: both methods are deterministic and keep nothing from one call to
\* the next: a call with the arguments of the first call ends as the first
\* call did (same returned value, same exception or none), whatever calls
\* were made in between.
C14_SameArgsSameOutcome ==
  (pc = "done" /\ firstCall.callee = callee /\ firstCall.args = CallArgs) =>
    /\ firstCall.out = CallOut
    /\ firstCall.thrown = thrown

C14_Witness ==
  /\ pc = "done"
  /\ calls = 3
  /\ callee = "extractFileReferences"
  /\ firstCall.callee = callee
  /\ issueBody = Str(tokRange \o <<" ">> \o tokLine)
  /\ firstCall.args = <<issueBody>>
  /\ Len(result) = 2
  /\ firstCall.out = result
  /\ aiResponse = Str(partBlock)
  /\ Len(solution.codeSnippets) = 1

\* C17: extractFileReferences never ends by an exception, and a failure in
\* exactly one pass does not discard the other pass: when only pass 1
\* failed, every filename pass 2 finds on a code block is returned; when
\* only pass 2 failed, every reference pass 1 registered is returned.
C17_OnePassFailureKeepsOther ==
  (pc = "done" /\ Truthy(issueBody)) =>
    LET s == issueBody.s
        ms == BlockMatches(s, 1)
    IN /\ ~thrown
       /\ failed = {"pass1"} =>
            \A k \in 1..Len(ms) :
              Captured(s, ms, k) # <<>> => Captured(s, ms, k) \in PathsOf(result)
       /\ failed = {"pass2"} =>
            /\ Len(result) >= Len(pass1Refs)
            /\ \A i \in 1..Len(pass1Refs) : result[i] = pass1Refs[i]
            /\ \A p \in TokenPaths, a \in TokenLines :
                 HasToken(s, p \o <<":">> \o Dec(a)) =>
                   \E i \in 1..Len(result) : result[i] = [path |-> p, lineNumbers |-> <<a>>]

C17_Witness ==
  /\ pc = "done"
  /\ ~thrown
  /\ failed = {"pass2"}
  /\ issueBody = Str(tokRange \o blockLangPath)
  /\ pass1Refs = <<[path |-> barePath, lineNumbers |-> <<10, 11, 12>>]>>
  /\ result = pass1Refs

\* C18: when both passes failed the call returns an empty sequence,
\* whatever had been registered before the failures.
C18_BothFailedEmpty ==
  (pc = "done" /\ failed = {"pass1", "pass2"}) => result = <<>>

----------------------------------------------------------------------------
(* Further properties of parseAIResponse.                                  *)

\* C19: nothing is fabricated: analysis, solution, every bestPractices item
\* and every snippet's suggestedCode is a contiguous part of the text; a
\* snippet's filePath is the path of a supplied file or a part of the text;
\* its originalCode is '' or the content of a supplied file with that path.
C19_NothingFabricated ==
  Parsed =>
    LET s == aiResponse.s
    IN /\ IsSubstring(solution.analysis, s)
       /\ IsSubstring(solution.solution, s)
       /\ \A i \in 1..Len(solution.bestPractices) :
            IsSubstring(solution.bestPractices[i], s)
       /\ \A k \in 1..Len(Snippets) :
            /\ IsSubstring(Snippets[k].suggestedCode, s)
            /\ \/ \E i \in 1..Len(KnownList) : KnownList[i].path = Snippets[k].filePath
               \/ IsSubstring(Snippets[k].filePath, s)
            /\ \/ Snippets[k].originalCode = <<>>
               \/ \E i \in 1..Len(KnownList) :
                    /\ KnownList[i].path = Snippets[k].filePath
                    /\ KnownList[i].content = Snippets[k].originalCode

C19_Witness ==
  /\ Parsed
  /\ aiResponse.s = partSolution \o partPractices \o partBlock
  /\ fileContents = Files(<<shortJs, appJs>>)
  /\ solution.analysis # <<>>
  /\ solution.solution = <<"f","i","x">>
  /\ Len(solution.bestPractices) = 1
  /\ Len(Snippets) = 1
  /\ Snippets[1].filePath = shortJs.path
  /\ Snippets[1].originalCode = shortJs.content
  /\ Snippets[1].suggestedCode = <<"c","o","n","s","o","l","e",".","l","o","g","(","1",")",";">>

----------------------------------------------------------------------------
(* Order of the returned references.                                       *)

\* the matches of fileLinePattern in s, in text order
RECURSIVE LineMatches(_, _)
LineMatches(s, from) ==
  LET m == Exec(s, fileLinePattern, from)
  IN IF m.ok THEN <<m>> \o LineMatches(s, m.pos) ELSE <<>>

PracticesSectionBlank(s) ==
  \E i \in SectionStarts(s, practicesLabels) :
    /\ \A j \in SectionStarts(s, practicesLabels) : i <= j
    /\ \E l \in practicesLabels :
         /\ LitAt(s, i, l, TRUE)
         /\ \A j \in (i + Len(l))..Len(s) : s[j] \in ColonOrSpace

\* C21: every element of bestPractices is a non-empty string without
\* leading or trailing white space, and bestPractices is empty when the
\* text has no best-practices section or the section holds only white space.
C21_PracticesTrimmedNonEmpty ==
  Parsed =>
    LET s == aiResponse.s
        items == solution.bestPractices
    IN /\ \A i \in 1..Len(items) :
            /\ items[i] # <<>>
            /\ items[i][1] \notin Space
            /\ items[i][Len(items[i])] \notin Space
       /\ ~HasLabel(s, practicesLabels) => items = <<>>
       /\ PracticesSectionBlank(s) => items = <<>>

C21_Witness ==
  /\ Parsed
  /\ aiResponse.s = secPractices \o itemsSpaced
  /\ solution.bestPractices = <<<<"*"," ","U","s","e"," ","c","o","n","s","t">>, <<"U","s","e"," ","l","e","t">>>>

\* what stands between the opening and the closing fence of block k
BlockInterior(s, k) == Slice(s, NthFence(s, 2 * k - 1) + 3, NthFence(s, 2 * k))

\* C22: codeSnippets holds one snippet per fenced block of the text, an
\* opening fence being closed by the next fence and an unclosed last fence
\* giving none, and the k-th snippet is taken from the k-th block.
C22_OneSnippetPerBlock ==
  Parsed =>
    LET s == aiResponse.s
    IN /\ Len(Snippets) = NumBlocks(s)
       /\ \A k \in 1..Len(Snippets) :
            k <= NumBlocks(s) =>
              IsSubstring(Snippets[k].suggestedCode, BlockInterior(s, k))

C22_Witness ==
  /\ Parsed
  /\ aiResponse.s = (openLangPath \o bodyIndented \o closeFence) \o openLang
  /\ Cardinality(FenceStarts(aiResponse.s)) = 3
  /\ Len(Snippets) = 1
  /\ Snippets[1].suggestedCode = <<"x"," ","="," ","1",";">>

====
